---- MODULE Spec2Model ----
(***************************************************************************)
(* Task lifecycle and script execution engine of browser-api:              *)
(*   handlers/taskmanager.py   (TaskManager: the task registry)            *)
(*   handlers/scriptexecutor.py (ScriptExecutor.execute_script)            *)
(*                                                                         *)
(* Python's asyncio runs one coroutine at a time and switches only at an   *)
(* await, so every action below is the code between two suspension points. *)
(* The specifications share the variables:                                 *)
(*   SpecExec     one direct call of ScriptExecutor.execute_script         *)
(*   SpecReg      every sequence of the synchronous TaskManager calls      *)
(*   Spec         TaskManager.execute_task running a script while other    *)
(*                callers use the synchronous TaskManager calls            *)
(*   SpecId       calls of generate_task_id while the clock advances       *)
(*   SpecBrowser  execute_task, start_browser and stop_browser interleaved *)
(*   SpecTeardown the registry calls beside start_browser and stop_browser,*)
(*                with the event loop's fairness                           *)
(***************************************************************************)
EXTENDS Integers, Sequences, FiniteSets, TLC

\* Bounds of the model.
MaxTasks == 2
MaxRetries == 2
MaxRuns == 2
NumTaskIds == 2
MaxControllers == 2
MaxIds == 4
MaxTime == 3
MaxTokens == 2
MaxVariables == 2
MaxLogs == 1

TaskIds == 1..NumTaskIds

VARIABLES
    tasks,            \* TaskManager.tasks: task id -> TaskStatus
    active_browsers,  \* TaskManager.active_browsers: task id -> Controller
    et,               \* frame of the execute_task coroutine
    es,               \* frame of the execute_script coroutine
    last_call,        \* observation: the last synchronous TaskManager call
    controllers,      \* the Controller objects created so far
    sb,               \* frame of the start_browser coroutine
    xb,               \* frame of the stop_browser coroutine
    task_counter,     \* TaskManager.task_counter
    clock,            \* int(time.time())
    issued,           \* observation: the ids generate_task_id returned
    script,           \* the AutomationScript object of the caller
    original,         \* observation: the script as the caller built it
    translated,       \* observation: what each script_to_tasks call returned
    ah,               \* frame of AgentHandler.execute_script
    ct                \* frame of the create_task request handler

browserVars == <<sb, xb>>

idVars == <<task_counter, clock, issued>>

scriptVars == <<script, original, translated, ah>>

vars == <<tasks, active_browsers, et, es, last_call, controllers, sb, xb,
          task_counter, clock, issued, script, original, translated, ah, ct>>

-----------------------------------------------------------------------------
(* ScriptExecutor.execute_script                                           *)

\* execution_results as built at the head of execute_script; "unset" stands
\* for the missing "status" key and "none" for the missing "error" key.
NewExecutionResults ==
    [runs |-> <<>>, total_runs |-> 0, successful_runs |-> 0,
     failed_runs |-> 0, status |-> "unset", error |-> "none"]

\* The dict run_once returns.
RunResult(success, results, error) ==
    [success |-> success, results |-> results, error |-> error]

\* One entry of run_results.
ResultEntry(task, success, attempt) ==
    [task |-> task, success |-> success, attempt |-> attempt]

\* The frame before any call. disp and started are observations: disp logs
\* the agent.execute_task calls of the current run with their outcome,
\* started counts the calls of run_once.
IdleFrame ==
    [pc |-> "idle", tasks |-> <<>>, max_retries |-> 0,
     stop_on_error |-> FALSE, periodic |-> FALSE,
     i |-> 0, attempt |-> 0, run_results |-> <<>>, run_success |-> TRUE,
     execution_results |-> NewExecutionResults,
     disp |-> <<>>, started |-> 0]

\* The loop without its break.
BreakNever(result, stop_on_error) == FALSE

\* `if not result["success"] and stop_on_error: break`
BreakLoop(result, stop_on_error) == ~result.success /\ stop_on_error

\* The bookkeeping of a finished run that counts it without keeping it.
CountRunNoAppend(er, result) ==
    [er EXCEPT !.total_runs = @ + 1,
               !.successful_runs = IF result.success THEN @ + 1 ELSE @,
               !.failed_runs = IF result.success THEN @ ELSE @ + 1]

\* The periodic branch's bookkeeping of one finished run.
CountRun(er, result) ==
    [er EXCEPT !.total_runs = @ + 1,
               !.successful_runs = IF result.success THEN @ + 1 ELSE @,
               !.failed_runs = IF result.success THEN @ ELSE @ + 1,
               !.runs = Append(@, result)]

\* The single run booked as a success whatever its result.
CountSingleRunAsSuccess(er, result) ==
    [er EXCEPT !.total_runs = 1, !.successful_runs = 1, !.failed_runs = 0,
               !.runs = Append(@, result)]

\* The non-periodic branch's bookkeeping of its single run.
CountSingleRun(er, result) ==
    [er EXCEPT !.total_runs = 1,
               !.successful_runs = IF result.success THEN 1 ELSE 0,
               !.failed_runs = IF result.success THEN 0 ELSE 1,
               !.runs = Append(@, result)]

\* The `else:` of the try statement and the return.
Return(s, er) ==
    [s EXCEPT !.execution_results = [er EXCEPT !.status = "completed"],
              !.pc = "done"]

\* From the return of run_once to the next suspension point or the return
\* of execute_script.
AfterRun(s, result) ==
    IF s.periodic
    THEN LET er == CountRun(s.execution_results, result)
         IN  IF BreakLoop(result, s.stop_on_error)
             THEN Return(s, er)
             ELSE [s EXCEPT !.execution_results = er, !.pc = "sleep_period"]
    ELSE Return(s, CountSingleRun(s.execution_results, result))

\* `await agent.execute_task(task)` begins.
Dispatch(s) ==
    [s EXCEPT !.pc = "dispatch",
              !.disp = Append(@, [task |-> s.i, outcome |-> "pending"])]

\* Head of `for task in tasks` with s.i the position of the next task; an
\* empty range(max_retries) skips the task.
RECURSIVE ForTask(_)
ForTask(s) ==
    IF s.i > Len(s.tasks)
    THEN AfterRun(s, RunResult(s.run_success, s.run_results, "none"))
    ELSE IF s.max_retries <= 0
         THEN ForTask([s EXCEPT !.i = @ + 1])
         ELSE Dispatch([s EXCEPT !.attempt = 0])

\* run_once is called.
StartRun(s) ==
    ForTask([s EXCEPT !.run_results = <<>>, !.run_success = TRUE,
                      !.i = 1, !.attempt = 0,
                      !.disp = <<>>, !.started = @ + 1])

\* execute_script from the translated tasks on.
CallExecuteScriptTasks(tasks_, max_retries, stop_on_error, periodic) ==
    StartRun([IdleFrame EXCEPT !.tasks = tasks_,
                               !.max_retries = max_retries,
                               !.stop_on_error = stop_on_error,
                               !.periodic = periodic])

\* execute_script is called with the translated tasks of the script.
CallExecuteScript(n_tasks, max_retries, stop_on_error, periodic) ==
    CallExecuteScriptTasks([k \in 1..n_tasks |-> k],
                           max_retries, stop_on_error, periodic)

\* The outcome of the agent call in flight, written to the log.
Outcome(s, o) == [s EXCEPT !.disp[Len(s.disp)].outcome = o]

\* The try body of the attempt without its sleep: `break` at once.
AgentReturnsNoSleep(s) ==
    ForTask([Outcome(s, "ok") EXCEPT
                !.run_results = Append(@, ResultEntry(s.i, TRUE, s.attempt + 1)),
                !.i = @ + 1])

\* agent.execute_task returned: the try body of the attempt.
AgentReturns(s) ==
    [Outcome(s, "ok") EXCEPT
        !.run_results = Append(@, ResultEntry(s.i, TRUE, s.attempt + 1)),
        !.pc = "sleep_ok"]

\* The last-attempt test off by one.
IsLastAttemptOffByOne(attempt, max_retries) == attempt = max_retries

\* `if attempt == max_retries - 1`
IsLastAttempt(attempt, max_retries) == attempt = max_retries - 1

\* The early return never taken, and always taken.
StopRunNever(stop_on_error) == FALSE

StopRunAlways(stop_on_error) == TRUE

\* `if stop_on_error: return {...}` inside the last attempt's handler
StopRun(stop_on_error) == stop_on_error

\* agent.execute_task raised an Exception: the except body of the attempt.
AgentRaises(s) ==
    LET s1 == Outcome(s, "raised")
    IN  IF IsLastAttempt(s.attempt, s.max_retries)
        THEN LET s2 == [s1 EXCEPT
                          !.run_results =
                              Append(@, ResultEntry(s.i, FALSE, s.attempt + 1)),
                          !.run_success = FALSE]
             IN  IF StopRun(s.stop_on_error)
                 THEN AfterRun(s2, RunResult(FALSE, s2.run_results,
                                             "failed_after_retries"))
                 ELSE [s2 EXCEPT !.pc = "sleep_retry"]
        ELSE [s1 EXCEPT !.pc = "sleep_retry"]

\* The sleep after a success without the `break`: the attempts go on.
SleepOkDoneNoBreak(s) ==
    IF s.attempt + 1 < s.max_retries
    THEN Dispatch([s EXCEPT !.attempt = @ + 1])
    ELSE ForTask([s EXCEPT !.i = @ + 1])

\* asyncio.sleep(task_interval) after a success returned: `break`.
SleepOkDone(s) == ForTask([s EXCEPT !.i = @ + 1])

\* asyncio.sleep(task_interval) after a failure returned: next attempt, or
\* the next task when range(max_retries) is exhausted.
SleepRetryDone(s) ==
    IF s.attempt + 1 < s.max_retries
    THEN Dispatch([s EXCEPT !.attempt = @ + 1])
    ELSE ForTask([s EXCEPT !.i = @ + 1])

\* asyncio.sleep(period) returned: `while True` calls run_once again.
PeriodSleepDone(s) == StartRun(s)

\* asyncio.CancelledError raised at the await in progress. It is a
\* BaseException, so run_once's `except Exception` lets it through to
\* execute_script's handler.
Cancelled(s) ==
    LET s1 == IF s.pc = "dispatch" THEN Outcome(s, "cancelled") ELSE s
    IN  [s1 EXCEPT !.execution_results.status = "cancelled", !.pc = "done"]

AwaitPoints == {"dispatch", "sleep_ok", "sleep_retry", "sleep_period"}

-----------------------------------------------------------------------------
(* TaskManager: the registry                                               *)

\* Optional fields hold "none" (strings) or <<>> (result) for None. Times
\* are kept as set or not set: no operation reads a time back.
NewTask ==
    [status |-> "running", start_time |-> "set", end_time |-> "none",
     result |-> <<>>, error |-> "none", logs |-> <<>>]

\* A result dict handed in by a caller other than execute_task.
ExternalResult == [NewExecutionResults EXCEPT !.status = "external"]

EmptyRegistry == [x \in {} |-> NewTask]

\* register_task: assignment into the dict, whatever it held.
RegisterTask(T, id) ==
    [x \in (DOMAIN T) \cup {id} |-> IF x = id THEN NewTask ELSE T[x]]

\* complete_task
CompleteTask(T, id, result) ==
    IF id \in DOMAIN T
    THEN [T EXCEPT ![id].status = "completed", ![id].end_time = "set",
                   ![id].result = <<result>>]
    ELSE T

\* fail_task that fails every registered task.
FailTaskAll(T, id, error) ==
    [x \in DOMAIN T |->
        [T[x] EXCEPT !.status = "failed", !.end_time = "set", !.error = error]]

\* add_log: the entry is the message behind the time of the call.
AddLog(T, id, now, message) ==
    IF id \in DOMAIN T
    THEN [T EXCEPT ![id].logs = Append(@, [time |-> now, message |-> message])]
    ELSE T

\* fail_task
FailTask(T, id, error) ==
    IF id \in DOMAIN T
    THEN [T EXCEPT ![id].status = "failed", ![id].end_time = "set",
                   ![id].error = error]
    ELSE T

\* The test of cancel_task without its status check.
CancelReturnAnyStatus(T, id) == id \in DOMAIN T

\* cancel_task: the condition of its `if`, which is also its return value.
CancelReturn(T, id) == id \in DOMAIN T /\ T[id].status = "running"

\* cancel_task that leaves end_time as it is.
CancelTaskNoEndTime(T, id) ==
    IF CancelReturn(T, id)
    THEN [T EXCEPT ![id].status = "cancelled"]
    ELSE T

\* cancel_task: the registry it leaves.
CancelTask(T, id) ==
    IF CancelReturn(T, id)
    THEN [T EXCEPT ![id].status = "cancelled", ![id].end_time = "set"]
    ELSE T

\* clear_history that also keeps the cancelled tasks.
ClearHistoryKeepCancelled(T) ==
    [x \in {y \in DOMAIN T : T[y].status \in {"running", "cancelled"}} |-> T[x]]

\* clear_history
ClearHistory(T) ==
    [x \in {y \in DOMAIN T : T[y].status = "running"} |-> T[x]]

\* get_task_status: self.tasks.get(task_id), <<>> for None.
GetTaskStatus(T, id) == IF id \in DOMAIN T THEN <<T[id]>> ELSE <<>>

\* get_all_tasks: list(self.tasks.values()), as the set of the records.
GetAllTasks(T) == {T[x] : x \in DOMAIN T}

-----------------------------------------------------------------------------
(* TaskManager.execute_task                                                *)

\* The frame before any call. cancel_won is an observation: cancel_task
\* returned True for task_id while this call was in flight. exc is the
\* exception the finally block re-raises once it is done.
\* cleaning is the controller whose cleanup() the finally block awaits.
IdleTask ==
    [pc |-> "idle", task_id |-> 0, exc |-> "none", cancel_won |-> FALSE,
     cleaning |-> 0]

InFlight == {"get_agent", "script", "cleanup"}

\* result.get("error", "Unknown error")
ResultError(result) ==
    IF result.error = "none" THEN "Unknown error" ELSE result.error

\* `if result["status"] == "completed": complete_task else: fail_task`
UpdateStatus(T, id, result) ==
    IF result.status = "completed"
    THEN CompleteTask(T, id, result)
    ELSE FailTask(T, id, ResultError(result))

\* The finally block that never awaits cleanup.
FinallyNoCleanup(f, browsers, exc) ==
    [f EXCEPT !.pc = IF exc = "none" THEN "returned" ELSE "raised", !.exc = exc]

\* Entry of the finally block: cleanup of the controller bound to task_id
\* is awaited when one is bound.
Finally(f, browsers, exc) ==
    IF f.task_id \in DOMAIN browsers
    THEN [f EXCEPT !.pc = "cleanup", !.exc = exc,
                   !.cleaning = browsers[f.task_id]]
    ELSE [f EXCEPT !.pc = IF exc = "none" THEN "returned" ELSE "raised",
                   !.exc = exc]

-----------------------------------------------------------------------------
(* TaskManager.active_browsers and the Controller objects                  *)

NoBrowsers == [x \in {} |-> 0]

\* self.active_browsers[task_id] = controller
Bind(B, id, c) == [x \in (DOMAIN B) \cup {id} |-> IF x = id THEN c ELSE B[x]]

\* del self.active_browsers[task_id]
Unbind(B, id) == [x \in (DOMAIN B) \ {id} |-> B[x]]

\* Controller(...): a new object, known by its position in controllers.
\* state follows the calls made on it: "created" by execute_task,
\* "starting" while start() is awaited, then "started" or "start_failed",
\* "stopped" after stop(), "cleaned" after cleanup().
NewController(C, id, state) == Append(C, [task_id |-> id, state |-> state])

SetState(C, c, state) == [C EXCEPT ![c].state = state]

\* The frames of start_browser and stop_browser before any call.
IdleStart == [pc |-> "idle", task_id |-> 0, controller |-> 0]

IdleStop == [pc |-> "idle", task_id |-> 0, controller |-> 0]

-----------------------------------------------------------------------------
(* TaskManager.generate_task_id                                            *)

DigitChars == <<"0", "1", "2", "3", "4", "5", "6", "7", "8", "9">>

\* str(n) for n >= 0, as the sequence of its characters.
RECURSIVE Str(_)
Str(n) ==
    IF n < 10 THEN <<DigitChars[n + 1]>>
    ELSE Str(n \div 10) \o <<DigitChars[(n % 10) + 1]>>

\* generate_task_id that leaves the counter alone.
NextCounterSame(c) == c

\* self.task_counter += 1
NextCounter(c) == c + 1

\* f"task_{int(time.time())}_{self.task_counter}"
FormatTaskId(t, c) ==
    <<"t", "a", "s", "k", "_">> \o Str(t) \o <<"_">> \o Str(c)

-----------------------------------------------------------------------------
(* ScriptExecutor.script_to_tasks                                          *)

\* A str is the sequence of its characters; the fixed pieces of the
\* f-strings are kept whole. A dict is the sequence of its items in
\* insertion order.

\* str.replace that stops after the first occurrence.
RECURSIVE ReplaceFirst(_, _, _)
ReplaceFirst(s, old, new) ==
    IF Len(s) < Len(old) THEN s
    ELSE IF SubSeq(s, 1, Len(old)) = old
         THEN new \o SubSeq(s, Len(old) + 1, Len(s))
         ELSE <<s[1]>> \o ReplaceFirst(Tail(s), old, new)

\* s.replace(old, new) for a non-empty old: every occurrence, found from
\* left to right, none overlapping the one before.
RECURSIVE Replace(_, _, _)
Replace(s, old, new) ==
    IF Len(s) < Len(old) THEN s
    ELSE IF SubSeq(s, 1, Len(old)) = old
         THEN new \o Replace(SubSeq(s, Len(old) + 1, Len(s)), old, new)
         ELSE <<s[1]>> \o Replace(Tail(s), old, new)

\* f"${{{var_name}}}"
Placeholder(var_name) == <<"$", "{">> \o var_name \o <<"}">>

\* `for var_name, var_value in variables.items(): action.value = ...`
\* from the item at position k on.
RECURSIVE SubstituteFrom(_, _, _)
SubstituteFrom(value, variables, k) ==
    IF k > Len(variables) THEN value
    ELSE SubstituteFrom(
             Replace(value, Placeholder(variables[k].name), variables[k].value),
             variables, k + 1)

\* The substitution pass on one action's value; an empty value is skipped.
Substitute(value, variables) ==
    IF value = <<>> THEN value ELSE SubstituteFrom(value, variables, 1)

SupportedTypes ==
    {"navigate", "click", "type", "wait", "scroll", "screenshot", "extract"}

\* _action_to_task for a supported action_type.
ActionToTask(action) ==
    CASE action.action_type = "navigate" -> <<"Navigate to ", "url">>
      [] action.action_type = "click" ->
            <<"Click on element matching selector: ", "selector">>
      [] action.action_type = "type" ->
            <<"Type '">> \o action.value
               \o <<"' into element matching selector: ", "selector">>
      [] action.action_type = "wait" -> <<"Wait for ", "wait_time", " milliseconds">>
      [] action.action_type = "scroll" -> <<"Scroll to bottom of page">>
      [] action.action_type = "screenshot" ->
            <<"Take screenshot of element matching selector: ", "selector">>
      [] action.action_type = "extract" ->
            <<"Extract text from element matching selector: ", "selector">>

\* The validation task appended after an action, if the step has a
\* validation of a known type. check marks it as a validation check.
ValidationTasks(validation, origin) ==
    CASE validation = "element_exists" ->
            << [text |-> <<"Wait for element matching selector: ", "selector">>,
                check |-> TRUE, origin |-> origin] >>
      [] validation = "text_contains" ->
            << [text |-> <<"Verify text in ", "selector", " contains '", "expected">>,
                check |-> TRUE, origin |-> origin] >>
      [] validation = "url_changed" ->
            << [text |-> <<"Wait for URL to change">>,
                check |-> TRUE, origin |-> origin] >>
      [] OTHER -> <<>>

NoScript == [steps |-> <<>>, variables |-> <<>>]

\* The frame of script_to_tasks at step i, action j: sc is the script
\* object, whose action values the pass overwrites, out the list `tasks`.
\* The result has raised set when _action_to_task raised ValueError.
\* origin and check are observations: the step and action a task came from.
RECURSIVE TranslateFrom(_, _, _, _)
TranslateFrom(sc, i, j, out) ==
    IF i > Len(sc.steps) THEN [script |-> sc, tasks |-> out, raised |-> FALSE]
    ELSE IF j > Len(sc.steps[i].actions) THEN TranslateFrom(sc, i + 1, 1, out)
    ELSE LET value == Substitute(sc.steps[i].actions[j].value, sc.variables)
             sc2 == [sc EXCEPT !.steps[i].actions[j].value = value]
             action == sc2.steps[i].actions[j]
         IN  IF action.action_type \notin SupportedTypes
             THEN [script |-> sc2, tasks |-> out, raised |-> TRUE]
             ELSE TranslateFrom(sc2, i, j + 1,
                      Append(out, [text |-> ActionToTask(action), check |-> FALSE,
                                   origin |-> <<i, j>>])
                      \o ValidationTasks(sc.steps[i].validation, <<i, j>>))

\* script_to_tasks that leaves an unsupported action out and returns.
ScriptToTasksNoRaise(sc) == [TranslateFrom(sc, 1, 1, <<>>) EXCEPT !.raised = FALSE]

\* script_to_tasks(script)
ScriptToTasks(sc) == TranslateFrom(sc, 1, 1, <<>>)

-----------------------------------------------------------------------------
(* AgentHandler.execute_script: its substitution pass                      *)

\* f"${var_name}": in an f-string the braces hold the expression, so the
\* text is a dollar sign and the name.
HandlerPlaceholder(var_name) == <<"$">> \o var_name

\* `for var_name, var_value in self.variables.items(): action.value = ...`
\* from the item at position k on.
RECURSIVE HandlerSubstituteFrom(_, _, _)
HandlerSubstituteFrom(value, variables, k) ==
    IF k > Len(variables) THEN value
    ELSE HandlerSubstituteFrom(
             Replace(value, HandlerPlaceholder(variables[k].name),
                     variables[k].value),
             variables, k + 1)

\* The substitution pass on one action's value; an empty value is skipped.
HandlerSubstitute(value, variables) ==
    IF value = <<>> THEN value ELSE HandlerSubstituteFrom(value, variables, 1)

\* The frame before the call; executed logs the values of the actions
\* handed to _execute_action.
IdleHandler == [pc |-> "idle", script |-> NoScript, executed |-> <<>>]

-----------------------------------------------------------------------------
(* create_task of the API                                                  *)

IdleRequest ==
    [pc |-> "idle", task_id |-> <<>>, agent |-> "none", response |-> "none"]

\* What AgentHandler.execute returns: the result of the agent's run, or the
\* dict its `except Exception` builds from the exception.
ExecuteResult(agent) ==
    IF agent = "returned"
    THEN [success |-> TRUE, error |-> "none"]
    ELSE [success |-> FALSE, error |-> agent]

-----------------------------------------------------------------------------
(* Actions                                                                 *)

Init ==
    /\ tasks = EmptyRegistry
    /\ active_browsers = NoBrowsers
    /\ et = IdleTask
    /\ es = IdleFrame
    /\ last_call = [op |-> "none", id |-> 0, ret |-> FALSE, removed |-> {}]
    /\ controllers = <<>>
    /\ sb = IdleStart
    /\ xb = IdleStop
    /\ task_counter = 0
    /\ clock = 0
    /\ issued = <<>>
    /\ script = NoScript
    /\ original = NoScript
    /\ translated = <<>>
    /\ ah = IdleHandler
    /\ ct = IdleRequest

\* execute_script moves to the frame `next`. When it returns inside
\* execute_task, execute_task goes on to its status update and its finally
\* block without suspending.
EsStep(next) ==
    /\ es' = next
    /\ IF et.pc = "script" /\ next.pc = "done"
       THEN /\ tasks' = UpdateStatus(tasks, et.task_id, next.execution_results)
            /\ et' = Finally(et, active_browsers, "none")
       ELSE UNCHANGED <<tasks, et>>
    /\ UNCHANGED <<active_browsers, last_call, controllers, browserVars, idVars, scriptVars, ct>>

\* A direct call of ScriptExecutor.execute_script.
ExecuteScriptCall ==
    /\ et.pc = "idle"
    /\ es.pc = "idle"
    /\ \E n \in 0..MaxTasks, r \in 0..MaxRetries, soe \in BOOLEAN, per \in BOOLEAN :
          EsStep(CallExecuteScript(n, r, soe, per))

AgentReturnsStep == es.pc = "dispatch" /\ EsStep(AgentReturns(es))

AgentRaisesStep == es.pc = "dispatch" /\ EsStep(AgentRaises(es))

SleepOkDoneStep == es.pc = "sleep_ok" /\ EsStep(SleepOkDone(es))

SleepRetryDoneStep == es.pc = "sleep_retry" /\ EsStep(SleepRetryDone(es))

\* The model follows at most MaxRuns runs of a periodic execution.
PeriodSleepDoneStep ==
    /\ es.pc = "sleep_period"
    /\ es.execution_results.total_runs < MaxRuns
    /\ EsStep(PeriodSleepDone(es))

CancelledStep == es.pc \in AwaitPoints /\ EsStep(Cancelled(es))

NextExec ==
    \/ ExecuteScriptCall
    \/ AgentReturnsStep
    \/ AgentRaisesStep
    \/ SleepOkDoneStep
    \/ SleepRetryDoneStep
    \/ PeriodSleepDoneStep
    \/ CancelledStep

SpecExec == Init /\ [][NextExec]_vars

\* execute_script with an agent whose every call returns or raises in the
\* end, and with the event loop ending every asyncio.sleep(task_interval).
SpecExecFair ==
    /\ Init
    /\ [][NextExec]_vars
    /\ WF_vars(AgentReturnsStep \/ AgentRaisesStep)
    /\ WF_vars(SleepOkDoneStep)
    /\ WF_vars(SleepRetryDoneStep)

\* A synchronous TaskManager call that leaves the registry T2.
RegCall(T2) ==
    /\ tasks' = T2
    /\ UNCHANGED <<active_browsers, es, controllers, browserVars, idVars, scriptVars, ct>>

\* The call and its return value, as the caller sees them, and the ids the
\* call took out of the registry.
Observed(op, id, ret) ==
    last_call' = [op |-> op, id |-> id, ret |-> ret,
                  removed |-> (DOMAIN tasks) \ (DOMAIN tasks')]

\* Another caller's write to the record of the task in execution ends the
\* observation that its cancel_task call stands.
Overwritten(id) ==
    IF et.task_id = id THEN [et EXCEPT !.cancel_won = FALSE] ELSE et

RegisterTaskCall(id) ==
    /\ RegCall(RegisterTask(tasks, id))
    /\ et' = Overwritten(id)

CompleteTaskCall(id) ==
    /\ RegCall(CompleteTask(tasks, id, ExternalResult))
    /\ et' = Overwritten(id)

FailTaskCall(id) ==
    /\ RegCall(FailTask(tasks, id, "external_error"))
    /\ et' = Overwritten(id)

CancelTaskCall(id) ==
    /\ RegCall(CancelTask(tasks, id))
    /\ et' = IF et.pc \in InFlight /\ et.task_id = id /\ CancelReturn(tasks, id)
             THEN [et EXCEPT !.cancel_won = TRUE]
             ELSE et

ClearHistoryCall ==
    /\ RegCall(ClearHistory(tasks))
    /\ UNCHANGED et

\* add_log(task_id, message); the model follows at most MaxLogs entries
\* in the registry at a time.
AddLogCall(id) ==
    /\ Cardinality({x \in DOMAIN tasks : tasks[x].logs # <<>>}) < MaxLogs
    /\ \A x \in DOMAIN tasks : Len(tasks[x].logs) < MaxLogs
    /\ RegCall(AddLog(tasks, id, clock, "message"))
    /\ UNCHANGED et

NextReg ==
    \/ \E id \in TaskIds :
          RegisterTaskCall(id) /\ Observed("register_task", id, FALSE)
    \/ \E id \in TaskIds :
          CompleteTaskCall(id) /\ Observed("complete_task", id, FALSE)
    \/ \E id \in TaskIds :
          FailTaskCall(id) /\ Observed("fail_task", id, FALSE)
    \/ \E id \in TaskIds :
          CancelTaskCall(id) /\ Observed("cancel_task", id, CancelReturn(tasks, id))
    \/ ClearHistoryCall /\ Observed("clear_history", 0, FALSE)

SpecReg == Init /\ [][NextReg]_vars

\* execute_task(task_id, script, config) is called: the Controller is
\* created and bound when none is bound (its constructor may raise), then
\* get_agent is awaited. The model follows at most MaxControllers
\* Controller objects.
ExecuteTaskCall(id, ctor_ok) ==
    /\ et.pc = "idle"
    /\ LET f == [IdleTask EXCEPT !.task_id = id]
       IN  IF id \in DOMAIN active_browsers
           THEN /\ et' = [f EXCEPT !.pc = "get_agent"]
                /\ UNCHANGED <<tasks, active_browsers, controllers>>
           ELSE IF ctor_ok
           THEN /\ Len(controllers) < MaxControllers
                /\ controllers' = NewController(controllers, id, "created")
                /\ active_browsers' = Bind(active_browsers, id, Len(controllers) + 1)
                /\ et' = [f EXCEPT !.pc = "get_agent"]
                /\ UNCHANGED tasks
           ELSE /\ tasks' = FailTask(tasks, id, "controller_error")
                /\ et' = Finally(f, active_browsers, "none")
                /\ UNCHANGED <<active_browsers, controllers>>
    /\ UNCHANGED <<es, last_call, browserVars, idVars, scriptVars, ct>>

\* get_agent returned: execute_script is called with the script and the
\* config of the call and runs to its first suspension point. The script
\* has a length in ns and the config max_retries in rs, stop_on_error in
\* soes and periodic in pers.
GetAgentReturns(ns, rs, soes, pers) ==
    /\ et.pc = "get_agent"
    /\ \E n \in ns, r \in rs, soe \in soes, per \in pers :
          LET next == CallExecuteScript(n, r, soe, per)
          IN  /\ es' = next
              /\ IF next.pc = "done"
                 THEN /\ tasks' = UpdateStatus(tasks, et.task_id, next.execution_results)
                      /\ et' = Finally(et, active_browsers, "none")
                 ELSE /\ et' = [et EXCEPT !.pc = "script"]
                      /\ UNCHANGED tasks
    /\ UNCHANGED <<active_browsers, last_call, controllers, browserVars, idVars, scriptVars, ct>>

GetAgentReturnsStep ==
    GetAgentReturns(0..MaxTasks, 0..MaxRetries, BOOLEAN, BOOLEAN)

\* get_agent raised an Exception: `except Exception as e: fail_task`.
GetAgentRaisesStep ==
    /\ et.pc = "get_agent"
    /\ tasks' = FailTask(tasks, et.task_id, "agent_error")
    /\ et' = Finally(et, active_browsers, "none")
    /\ UNCHANGED <<active_browsers, es, last_call, controllers, browserVars, idVars, scriptVars, ct>>

\* CancelledError at get_agent: only the finally block runs.
GetAgentCancelledStep ==
    /\ et.pc = "get_agent"
    /\ et' = Finally(et, active_browsers, "cancelled")
    /\ UNCHANGED <<tasks, active_browsers, es, last_call, controllers,
                   browserVars, idVars, scriptVars, ct>>

\* cleanup returned: `del self.active_browsers[task_id]`, then the pending
\* exception, if any, goes on. The del raises KeyError when the entry is
\* gone.
CleanupReturnsStep ==
    /\ et.pc = "cleanup"
    /\ controllers' = SetState(controllers, et.cleaning, "cleaned")
    /\ IF et.task_id \in DOMAIN active_browsers
       THEN /\ active_browsers' = Unbind(active_browsers, et.task_id)
            /\ et' = [et EXCEPT !.pc = IF et.exc = "none" THEN "returned" ELSE "raised"]
       ELSE /\ et' = [et EXCEPT !.pc = "raised", !.exc = "KeyError"]
            /\ UNCHANGED active_browsers
    /\ UNCHANGED <<tasks, es, last_call, browserVars, idVars, scriptVars, ct>>

\* cleanup raised: the exception leaves execute_task and the del is skipped.
CleanupRaisesStep ==
    /\ et.pc = "cleanup"
    /\ et' = [et EXCEPT !.pc = "raised", !.exc = "cleanup_error"]
    /\ UNCHANGED <<tasks, active_browsers, es, last_call, controllers,
                   browserVars, idVars, scriptVars, ct>>

Next ==
    \/ \E id \in TaskIds, ctor_ok \in BOOLEAN : ExecuteTaskCall(id, ctor_ok)
    \/ GetAgentReturnsStep
    \/ GetAgentRaisesStep
    \/ GetAgentCancelledStep
    \/ CleanupReturnsStep
    \/ CleanupRaisesStep
    \/ AgentReturnsStep
    \/ AgentRaisesStep
    \/ SleepOkDoneStep
    \/ SleepRetryDoneStep
    \/ PeriodSleepDoneStep
    \/ CancelledStep
    \/ \E id \in TaskIds : RegisterTaskCall(id) /\ UNCHANGED last_call
    \/ \E id \in TaskIds : CompleteTaskCall(id) /\ UNCHANGED last_call
    \/ \E id \in TaskIds : FailTaskCall(id) /\ UNCHANGED last_call
    \/ \E id \in TaskIds : CancelTaskCall(id) /\ UNCHANGED last_call
    \/ ClearHistoryCall /\ UNCHANGED last_call

Spec == Init /\ [][Next]_vars

-----------------------------------------------------------------------------
(* generate_task_id                                                        *)

\* generate_task_id() has no suspension point: the increment and the
\* formatting are one step. The model follows at most MaxIds calls.
GenerateTaskId ==
    /\ task_counter < MaxIds
    /\ task_counter' = NextCounter(task_counter)
    /\ issued' = Append(issued, FormatTaskId(clock, task_counter'))
    /\ UNCHANGED <<tasks, active_browsers, et, es, last_call, controllers,
                   browserVars, clock, scriptVars, ct>>

\* The clock reaches the next second, up to MaxTime.
Tick ==
    /\ clock < MaxTime
    /\ clock' = clock + 1
    /\ UNCHANGED <<tasks, active_browsers, et, es, last_call, controllers,
                   browserVars, task_counter, issued, scriptVars, ct>>

NextId ==
    \/ GenerateTaskId
    \/ Tick

SpecId == Init /\ [][NextId]_vars

-----------------------------------------------------------------------------
(* start_browser and stop_browser                                          *)

\* start_browser(task_id) is called with no controller bound to task_id:
\* the Controller is created and start() is awaited. A call for a bound
\* task_id returns at once and changes nothing.
StartBrowserCall(id) ==
    /\ sb.pc = "idle"
    /\ id \notin DOMAIN active_browsers
    /\ Len(controllers) < MaxControllers
    /\ controllers' = NewController(controllers, id, "starting")
    /\ sb' = [pc |-> "start", task_id |-> id, controller |-> Len(controllers) + 1]
    /\ UNCHANGED <<tasks, active_browsers, et, es, last_call, xb, idVars, scriptVars, ct>>

\* start() returned: `self.active_browsers[task_id] = controller`.
StartBrowserReturnsStep ==
    /\ sb.pc = "start"
    /\ controllers' = SetState(controllers, sb.controller, "started")
    /\ active_browsers' = Bind(active_browsers, sb.task_id, sb.controller)
    /\ sb' = IdleStart
    /\ UNCHANGED <<tasks, et, es, last_call, xb, idVars, scriptVars, ct>>

\* start() raised: the exception leaves start_browser.
StartBrowserRaisesStep ==
    /\ sb.pc = "start"
    /\ controllers' = SetState(controllers, sb.controller, "start_failed")
    /\ sb' = IdleStart
    /\ UNCHANGED <<tasks, active_browsers, et, es, last_call, xb, idVars, scriptVars, ct>>

\* stop_browser(task_id) is called with a controller bound to task_id:
\* its stop() is awaited. A call for an unbound task_id returns at once.
StopBrowserCall(id) ==
    /\ xb.pc = "idle"
    /\ id \in DOMAIN active_browsers
    /\ xb' = [pc |-> "stop", task_id |-> id, controller |-> active_browsers[id]]
    /\ UNCHANGED <<tasks, active_browsers, et, es, last_call, controllers, sb, idVars, scriptVars, ct>>

\* stop() returned: `del self.active_browsers[task_id]`, which raises
\* KeyError when the entry is gone.
StopBrowserReturnsStep ==
    /\ xb.pc = "stop"
    /\ controllers' = SetState(controllers, xb.controller, "stopped")
    /\ active_browsers' = IF xb.task_id \in DOMAIN active_browsers
                          THEN Unbind(active_browsers, xb.task_id)
                          ELSE active_browsers
    /\ xb' = IdleStop
    /\ UNCHANGED <<tasks, et, es, last_call, sb, idVars, scriptVars, ct>>

\* stop() raised: the exception leaves stop_browser and the del is skipped.
StopBrowserRaisesStep ==
    /\ xb.pc = "stop"
    /\ xb' = IdleStop
    /\ UNCHANGED <<tasks, active_browsers, et, es, last_call, controllers, sb, idVars, scriptVars, ct>>

\* execute_task is given a script of at most one action, tried once.
GetAgentReturnsShortStep == GetAgentReturns(0..1, {1}, {TRUE}, {FALSE})

NextBrowser ==
    \/ \E id \in TaskIds, ctor_ok \in BOOLEAN : ExecuteTaskCall(id, ctor_ok)
    \/ GetAgentReturnsShortStep
    \/ GetAgentRaisesStep
    \/ GetAgentCancelledStep
    \/ CleanupReturnsStep
    \/ CleanupRaisesStep
    \/ AgentReturnsStep
    \/ AgentRaisesStep
    \/ SleepOkDoneStep
    \/ CancelledStep
    \/ \E id \in TaskIds : StartBrowserCall(id)
    \/ StartBrowserReturnsStep
    \/ StartBrowserRaisesStep
    \/ \E id \in TaskIds : StopBrowserCall(id)
    \/ StopBrowserReturnsStep
    \/ StopBrowserRaisesStep

SpecBrowser == Init /\ [][NextBrowser]_vars

NextTeardown ==
    \/ \E id \in TaskIds : RegisterTaskCall(id) /\ UNCHANGED last_call
    \/ \E id \in TaskIds : CompleteTaskCall(id) /\ UNCHANGED last_call
    \/ \E id \in TaskIds : FailTaskCall(id) /\ UNCHANGED last_call
    \/ \E id \in TaskIds : CancelTaskCall(id) /\ UNCHANGED last_call
    \/ ClearHistoryCall /\ UNCHANGED last_call
    \/ \E id \in TaskIds : StartBrowserCall(id)
    \/ StartBrowserReturnsStep
    \/ StartBrowserRaisesStep
    \/ \E id \in TaskIds : StopBrowserCall(id)
    \/ StopBrowserReturnsStep
    \/ StopBrowserRaisesStep

\* The event loop resumes a coroutine whose awaited call has finished, and
\* start() and stop() finish; a stop() that is tried again and again does
\* not raise for ever. Nothing obliges a caller to make a call.
SpecTeardown ==
    /\ Init
    /\ [][NextTeardown]_vars
    /\ WF_vars(StartBrowserReturnsStep \/ StartBrowserRaisesStep)
    /\ WF_vars(StopBrowserReturnsStep \/ StopBrowserRaisesStep)
    /\ SF_vars(StopBrowserReturnsStep)

-----------------------------------------------------------------------------
(* script_to_tasks called directly                                         *)

\* The variable names, and the pieces the values of the actions and of the
\* variables are put together from: plain text, placeholders of the names
\* and of a name no dict has, and pieces of placeholders.
Names == {<<"a">>, <<"b">>, <<"a", "b">>}

ValueTokens ==
    {<<"x">>, Placeholder(<<"a">>), Placeholder(<<"b">>), Placeholder(<<"c">>),
     <<"$">>, <<"{", "b", "}">>,
     <<"$", "{", "a">> \o Placeholder(<<"b">>) \o <<"}">>}

VariableValues ==
    {<<>>, <<"x">>, <<"b">>, Placeholder(<<"a">>), Placeholder(<<"b">>),
     <<"{", "b", "}">>}

\* The texts of at most n pieces.
RECURSIVE Texts(_)
Texts(n) ==
    IF n = 0 THEN {<<>>}
    ELSE Texts(n - 1) \cup {t \o u : t \in Texts(n - 1), u \in ValueTokens}

\* The dicts of at most n items.
RECURSIVE VariableDicts(_)
VariableDicts(n) ==
    IF n = 0 THEN {<<>>}
    ELSE VariableDicts(n - 1) \cup
         {Append(d, [name |-> k, value |-> v]) :
             d \in VariableDicts(n - 1),
             k \in Names,
             v \in VariableValues}

DistinctNames(d) == \A j, k \in 1..Len(d) : j # k => d[j].name # d[k].name

\* A script of one step with one type action.
TypeScript(value, variables) ==
    [steps |-> << [actions |-> <<[action_type |-> "type", value |-> value]>>,
                   validation |-> "none"] >>,
     variables |-> variables]

\* A caller builds a script.
BuildTypeScript ==
    /\ script = NoScript
    /\ \E value \in Texts(MaxTokens), d \in VariableDicts(MaxVariables) :
          /\ DistinctNames(d)
          /\ script' = TypeScript(value, d)
    /\ original' = script'
    /\ UNCHANGED <<tasks, active_browsers, et, es, last_call, controllers,
                   browserVars, idVars, translated, ah, ct>>

\* script_to_tasks(script) is called on the script object, at most twice.
ScriptToTasksCall ==
    /\ script # NoScript
    /\ Len(translated) < 2
    /\ LET r == ScriptToTasks(script)
       IN  /\ script' = r.script
           /\ translated' = Append(translated, r.tasks)
    /\ UNCHANGED <<tasks, active_browsers, et, es, last_call, controllers,
                   browserVars, idVars, original, ah, ct>>

NextSubst ==
    \/ BuildTypeScript
    \/ ScriptToTasksCall

SpecSubst == Init /\ [][NextSubst]_vars

-----------------------------------------------------------------------------
(* The two substitution passes on one script and one variables map         *)

\* An AgentHandler built with a script equal to the caller's and with the
\* same variables runs execute_script up to `await self._execute_action`
\* of the first action: the value is replaced in the handler's script.
HandlerExecuteScriptCall ==
    /\ original # NoScript
    /\ ah.pc = "idle"
    /\ LET value == HandlerSubstitute(original.steps[1].actions[1].value,
                                      original.variables)
       IN  ah' = [pc |-> "execute_action",
                  script |-> [original EXCEPT
                                 !.steps[1].actions[1].value = value],
                  executed |-> <<value>>]
    /\ UNCHANGED <<tasks, active_browsers, et, es, last_call, controllers,
                   browserVars, idVars, script, original, translated, ct>>

\* _execute_action returned or raised: the step of the one-action script
\* is over and execute_script returns.
ExecuteActionDoneStep ==
    /\ ah.pc = "execute_action"
    /\ ah' = [ah EXCEPT !.pc = "done"]
    /\ UNCHANGED <<tasks, active_browsers, et, es, last_call, controllers,
                   browserVars, idVars, script, original, translated, ct>>

NextAgree ==
    \/ BuildTypeScript
    \/ ScriptToTasksCall
    \/ HandlerExecuteScriptCall
    \/ ExecuteActionDoneStep

SpecAgree == Init /\ [][NextAgree]_vars

-----------------------------------------------------------------------------
(* execute_script called with a script object                              *)

\* The actions a script is built from: a type action whose value is a
\* placeholder, a click, and an action of a type _action_to_task does not
\* know.
ScriptActions ==
    {[action_type |-> "type", value |-> Placeholder(<<"a">>)],
     [action_type |-> "click", value |-> <<>>],
     [action_type |-> "hover", value |-> <<>>]}

\* The action lists of at most n actions.
RECURSIVE ActionLists(_)
ActionLists(n) ==
    IF n = 0 THEN {<<>>}
    ELSE ActionLists(n - 1) \cup
         {Append(l, a) : l \in ActionLists(n - 1), a \in ScriptActions}

ScriptVariables ==
    {<<>>, <<[name |-> <<"a">>, value |-> <<"x">>]>>,
     <<[name |-> <<"a">>, value |-> <<"y">>]>>}

\* A caller builds a script of one step.
BuildScript ==
    /\ script = NoScript
    /\ \E l \in ActionLists(MaxTasks) \ {<<>>},
          v \in {"none", "element_exists"},
          d \in ScriptVariables :
          script' = [steps |-> <<[actions |-> l, validation |-> v]>>,
                     variables |-> d]
    /\ original' = script'
    /\ UNCHANGED <<tasks, active_browsers, et, es, last_call, controllers,
                   browserVars, idVars, translated, ah, ct>>

\* The caller assigns other variables to the script object, between two
\* runs of a periodic execution or between two executions.
SetVariables ==
    /\ script # NoScript
    /\ es.pc \in {"sleep_period", "done"}
    /\ \E d \in ScriptVariables \ {script.variables} :
          script' = [script EXCEPT !.variables = d]
    /\ UNCHANGED <<tasks, active_browsers, et, es, last_call, controllers,
                   browserVars, idVars, original, translated, ah, ct>>

\* execute_script(agent, script, ...) is called on the script object, at
\* most twice, each attempt being the only one (max_retries = 1). The
\* translation is outside the try statement: its ValueError leaves
\* execute_script.
ExecuteScriptOnScriptCall ==
    /\ script # NoScript
    /\ es.pc \in {"idle", "done"}
    /\ Len(translated) < 2
    /\ LET r == ScriptToTasks(script)
       IN  /\ script' = r.script
           /\ translated' = Append(translated, r.tasks)
           /\ \E soe \in BOOLEAN, per \in BOOLEAN :
                 es' = IF r.raised
                       THEN [IdleFrame EXCEPT !.pc = "raised"]
                       ELSE CallExecuteScriptTasks(r.tasks, 1, soe, per)
    /\ UNCHANGED <<tasks, active_browsers, et, last_call, controllers,
                   browserVars, idVars, original, ah, ct>>

NextScript ==
    \/ BuildScript
    \/ SetVariables
    \/ ExecuteScriptOnScriptCall
    \/ AgentReturnsStep
    \/ AgentRaisesStep
    \/ SleepOkDoneStep
    \/ PeriodSleepDoneStep
    \/ CancelledStep

SpecScript == Init /\ [][NextScript]_vars

-----------------------------------------------------------------------------
(* The operations on one task id, beside one execute_task                  *)

\* get_agent returned and execute_script is called with a script that
\* holds an action of a type _action_to_task does not know: the ValueError
\* of script_to_tasks leaves execute_script and is caught by execute_task.
UnsupportedScriptStep ==
    /\ et.pc = "get_agent"
    /\ \E l \in ActionLists(MaxTasks) \ {<<>>} :
          ScriptToTasks([steps |-> <<[actions |-> l, validation |-> "none"]>>,
                         variables |-> <<>>]).raised
    /\ tasks' = FailTask(tasks, et.task_id, "Unsupported action type")
    /\ et' = Finally(et, active_browsers, "none")
    /\ UNCHANGED <<active_browsers, es, last_call, controllers, browserVars,
                   idVars, scriptVars, ct>>

\* A call of a TaskManager operation that names the task id: the frame
\* properties look at the id alone.
OnTask(id) == Observed("task_manager", id, FALSE)

\* The TaskManager operations that name one task id, each registry call
\* observed in last_call, beside one execute_task.
NextFrame ==
    \/ \E id \in TaskIds :
          RegisterTaskCall(id) /\ OnTask(id)
    \/ \E id \in TaskIds :
          CompleteTaskCall(id) /\ OnTask(id)
    \/ \E id \in TaskIds :
          FailTaskCall(id) /\ OnTask(id)
    \/ \E id \in TaskIds :
          CancelTaskCall(id) /\ OnTask(id)
    \/ \E id \in TaskIds :
          AddLogCall(id) /\ OnTask(id)
    \/ \E id \in TaskIds, ctor_ok \in BOOLEAN : ExecuteTaskCall(id, ctor_ok)
    \/ GetAgentReturnsShortStep
    \/ GetAgentRaisesStep
    \/ UnsupportedScriptStep
    \/ GetAgentCancelledStep
    \/ CleanupReturnsStep
    \/ CleanupRaisesStep
    \/ AgentReturnsStep
    \/ AgentRaisesStep
    \/ SleepOkDoneStep
    \/ CancelledStep

SpecFrame == Init /\ [][NextFrame]_vars

-----------------------------------------------------------------------------
(* POST /api/tasks: create_task and AgentHandler.execute                   *)

ApiVars == <<active_browsers, et, es, last_call, controllers, browserVars,
             clock, scriptVars>>

\* create_task up to `await agent_handler.execute()`, and execute up to
\* `await browser.new_context()`.
CreateTaskCall ==
    /\ ct.pc \in {"idle", "responded"}
    /\ task_counter < MaxIds
    /\ task_counter' = NextCounter(task_counter)
    /\ LET task_id == FormatTaskId(clock, task_counter')
       IN  /\ issued' = Append(issued, task_id)
           /\ tasks' = RegisterTask(tasks, task_id)
           /\ ct' = [IdleRequest EXCEPT !.pc = "new_context", !.task_id = task_id]
    /\ UNCHANGED ApiVars

\* The step of a request that leaves the id generator alone.
RequestStep(pc, T2, next) ==
    /\ ct.pc = pc
    /\ tasks' = T2
    /\ ct' = next
    /\ UNCHANGED <<ApiVars, task_counter, issued>>

\* create_task's `except Exception`: fail_task and the 500 response.
Respond500 ==
    [ct EXCEPT !.pc = "responded", !.response = "error"]

\* new_context returned and the handler has an llm: the Agent is built and
\* `await agent.run()` is reached.
NewContextReturnsStep ==
    RequestStep("new_context", tasks, [ct EXCEPT !.pc = "agent_run"])

\* new_context returned and _get_llm raises ValueError: execute's except
\* builds the error dict and the finally block reaches context.close().
GetLlmRaisesStep ==
    RequestStep("new_context", tasks,
                [ct EXCEPT !.pc = "context_close", !.agent = "no_api_key"])

\* Browser() or new_context raised: execute's except builds the error
\* dict, then the finally block reads `context`, which is unbound; the
\* UnboundLocalError leaves execute and reaches create_task's except.
NewContextRaisesStep ==
    RequestStep("new_context",
                FailTask(tasks, ct.task_id, "UnboundLocalError"),
                Respond500)

\* agent.run() returned: the result dict is built and the finally block
\* reaches context.close().
AgentRunReturnsStep ==
    RequestStep("agent_run", tasks,
                [ct EXCEPT !.pc = "context_close", !.agent = "returned"])

\* agent.run() raised: execute's except builds the error dict and the
\* finally block reaches context.close().
AgentRunRaisesStep ==
    RequestStep("agent_run", tasks,
                [ct EXCEPT !.pc = "context_close", !.agent = "raised"])

ContextCloseReturnsStep ==
    RequestStep("context_close", tasks, [ct EXCEPT !.pc = "browser_close"])

\* An exception of the finally block replaces the return of execute.
ContextCloseRaisesStep ==
    RequestStep("context_close",
                FailTask(tasks, ct.task_id, "close_error"),
                Respond500)

\* browser.close() returned: execute returns its dict and create_task
\* records it with complete_task and answers 200.
BrowserCloseReturnsStep ==
    RequestStep("browser_close",
                CompleteTask(tasks, ct.task_id, ExecuteResult(ct.agent)),
                [ct EXCEPT !.pc = "responded", !.response = "completed"])

BrowserCloseRaisesStep ==
    RequestStep("browser_close",
                FailTask(tasks, ct.task_id, "close_error"),
                Respond500)

NextApi ==
    \/ CreateTaskCall
    \/ NewContextReturnsStep
    \/ GetLlmRaisesStep
    \/ NewContextRaisesStep
    \/ AgentRunReturnsStep
    \/ AgentRunRaisesStep
    \/ ContextCloseReturnsStep
    \/ ContextCloseRaisesStep
    \/ BrowserCloseReturnsStep
    \/ BrowserCloseRaisesStep

SpecApi == Init /\ [][NextApi]_vars

-----------------------------------------------------------------------------
(* Properties of the registry                                              *)

Terminal == {"completed", "failed", "cancelled"}

\* C1: once a task's status is completed, failed or cancelled, a later
\* complete_task or fail_task call on it leaves its record (status,
\* end_time, result, error) unchanged. Checked under SpecReg.
C1_TerminalNeverOverwritten ==
    [][ \A id \in TaskIds :
          ( /\ last_call'.op \in {"complete_task", "fail_task"}
            /\ last_call'.id = id
            /\ id \in DOMAIN tasks
            /\ tasks[id].status \in Terminal )
          => tasks'[id] = tasks[id] ]_vars

\* C2: when cancel_task(id) returned True while execute_task(id, ...) was
\* in flight, the task's status once execute_task has returned is
\* cancelled. Checked under Spec.
C2_CancelWinsOverExecuteTask ==
    ( /\ et.pc = "returned"
      /\ et.cancel_won
      /\ et.task_id \in DOMAIN tasks )
    => tasks[et.task_id].status = "cancelled"

\* C3: cancel_task(id) returns True exactly when id is registered with
\* status running; it then sets status to cancelled and end_time and
\* nothing else; otherwise it returns False and leaves the registry as it
\* was; a cancel_task that follows a successful one on the same id returns
\* False. Checked under SpecReg.
C3_CancelContract ==
    [][ last_call'.op = "cancel_task" =>
          LET id == last_call'.id
              was_running == id \in DOMAIN tasks /\ tasks[id].status = "running"
          IN  /\ last_call'.ret = was_running
              /\ was_running =>
                   /\ DOMAIN tasks' = DOMAIN tasks
                   /\ tasks'[id] = [tasks[id] EXCEPT !.status = "cancelled",
                                                     !.end_time = "set"]
                   /\ \A x \in DOMAIN tasks \ {id} : tasks'[x] = tasks[x]
              /\ ~was_running => tasks' = tasks
              /\ ( /\ last_call.op = "cancel_task"
                   /\ last_call.id = id
                   /\ last_call.ret ) => ~last_call'.ret ]_vars

\* C3 witness: cancel_task has just returned True and the task is cancelled.
C3_Witness ==
    /\ last_call.op = "cancel_task"
    /\ last_call.ret
    /\ last_call.id \in DOMAIN tasks
    /\ tasks[last_call.id].status = "cancelled"
    /\ tasks[last_call.id].end_time = "set"

\* Some action of the execution gave up after its last attempt.
ExhaustedIn(s) ==
    \/ \E k \in 1..Len(s.execution_results.runs) :
          \E j \in 1..Len(s.execution_results.runs[k].results) :
             ~s.execution_results.runs[k].results[j].success
    \/ \E j \in 1..Len(s.run_results) : ~s.run_results[j].success

AllRunsSucceeded(s) ==
    \A k \in 1..Len(s.execution_results.runs) :
       s.execution_results.runs[k].success

\* C4: when an action exhausted its retries during execute_task, the task's
\* status as execute_task leaves it is failed with a non-empty error; it is
\* completed only if every run succeeded. Stated on the step in which
\* execute_script returns and execute_task writes the status. Checked under
\* Spec.
C4_ExhaustedRetriesFailTask ==
    [][ ( /\ et.pc \in {"get_agent", "script"}
          /\ es.pc # "done"
          /\ es'.pc = "done"
          /\ et.task_id \in DOMAIN tasks )
        => /\ ExhaustedIn(es') =>
                /\ tasks'[et.task_id].status = "failed"
                /\ tasks'[et.task_id].error # "none"
           /\ tasks'[et.task_id].status = "completed" => AllRunsSucceeded(es') ]_vars

-----------------------------------------------------------------------------
(* Properties of execute_script, checked under SpecExec                    *)

\* What the log of the current run says about the task at position t.
DispatchesOf(s, t) == {j \in 1..Len(s.disp) : s.disp[j].task = t}

AllRaised(s, t) ==
    /\ DispatchesOf(s, t) # {}
    /\ \A j \in DispatchesOf(s, t) : s.disp[j].outcome = "raised"

Succeeded(s, t) == \E j \in DispatchesOf(s, t) : s.disp[j].outcome = "ok"

EntriesOf(s, t) == {j \in 1..Len(s.run_results) : s.run_results[j].task = t}

\* The run that was started last has returned and is in the history.
RunOver(s) ==
    /\ s.started >= 1
    /\ Len(s.execution_results.runs) = s.started

LastRun(s) == s.execution_results.runs[Len(s.execution_results.runs)]

\* The current run gave up on some action.
RunFailed(s) == \E j \in 1..Len(s.run_results) : ~s.run_results[j].success

\* C5: with periodic and stop_on_error, the step in which run k is the
\* first to fail ends the loop: execute_script has returned with
\* total_runs = k, successful_runs = k - 1, failed_runs = 1 and k runs in
\* the history, the last one the failed one.
C5_PeriodicStopsAtFirstFailure ==
    ( /\ es.periodic
      /\ es.stop_on_error
      /\ RunFailed(es) )
    => LET er == es.execution_results
           k == es.started
       IN  /\ es.pc = "done"
           /\ er.total_runs = k
           /\ er.successful_runs = k - 1
           /\ er.failed_runs = 1
           /\ Len(er.runs) = k
           /\ ~er.runs[k].success
           /\ \A j \in 1..(k - 1) : er.runs[j].success

\* C5 witness: the second run of a periodic execution failed.
C5_Witness ==
    /\ es.periodic
    /\ es.stop_on_error
    /\ RunFailed(es)
    /\ es.started = 2
    /\ es.pc = "done"
    /\ es.execution_results.total_runs = 2
    /\ es.execution_results.successful_runs = 1
    /\ es.execution_results.failed_runs = 1

\* C6: a periodic execution with stop_on_error that ended because a run
\* failed returns an aggregate whose status is error.
C6_FailedPeriodicStatusError ==
    ( /\ es.periodic
      /\ es.stop_on_error
      /\ es.pc = "done"
      /\ RunFailed(es) )
    => es.execution_results.status = "error"

\* C7: with max_retries = N >= 1, an action whose every dispatch raised is
\* never dispatched more than N times; before the N-th dispatch has raised
\* it has no result entry and the run is still at this action; once it has,
\* the run holds exactly one entry for it, with success false and
\* attempt N.
C7_RetryBound ==
    \A t \in 1..Len(es.tasks) :
       ( es.max_retries >= 1 /\ AllRaised(es, t) )
       => LET n == Cardinality(DispatchesOf(es, t))
          IN  /\ n <= es.max_retries
              /\ n < es.max_retries =>
                    /\ EntriesOf(es, t) = {}
                    /\ es.i = t
              /\ n = es.max_retries =>
                    /\ Cardinality(EntriesOf(es, t)) = 1
                    /\ \A j \in EntriesOf(es, t) :
                          /\ ~es.run_results[j].success
                          /\ es.run_results[j].attempt = es.max_retries

\* C7 witness: an action was dispatched MaxRetries times, every dispatch
\* raised, and the run went on to the next action.
C7_Witness ==
    /\ es.max_retries = MaxRetries
    /\ AllRaised(es, 1)
    /\ Cardinality(DispatchesOf(es, 1)) = MaxRetries
    /\ es.i > 1
    /\ \E j \in EntriesOf(es, 1) :
          ~es.run_results[j].success /\ es.run_results[j].attempt = MaxRetries

\* C8: with stop_on_error, once the action at position k has exhausted its
\* retries the run is over: execute_script has returned, nothing after
\* position k was dispatched, the run's success is false and its results
\* are the entries of positions 1..k, the first k - 1 of them successes.
C8_StopOnErrorAbortsRun ==
    \A j \in 1..Len(es.run_results) :
       ( es.stop_on_error /\ ~es.run_results[j].success )
       => LET k == es.run_results[j].task
          IN  /\ es.pc = "done"
              /\ \A d \in 1..Len(es.disp) : es.disp[d].task <= k
              /\ Len(es.run_results) = k
              /\ \A x \in 1..k : es.run_results[x].task = x
              /\ \A x \in 1..(k - 1) : es.run_results[x].success
              /\ RunOver(es)
              /\ ~LastRun(es).success
              /\ LastRun(es).results = es.run_results

\* C8 witness: the first of two actions exhausted its retries.
C8_Witness ==
    /\ es.stop_on_error
    /\ Len(es.tasks) = 2
    /\ es.pc = "done"
    /\ Len(es.run_results) = 1
    /\ ~es.run_results[1].success
    /\ es.run_results[1].task = 1

\* C9: without stop_on_error and with max_retries >= 1, a run that has
\* returned dispatched every one of its L actions, holds exactly L result
\* entries, one per action in order, and has success false when an action
\* exhausted its retries.
C9_ContinueOnErrorRunsAll ==
    ( /\ ~es.stop_on_error
      /\ es.max_retries >= 1
      /\ RunOver(es) )
    => /\ \A t \in 1..Len(es.tasks) :
            /\ DispatchesOf(es, t) # {}
            /\ Cardinality(DispatchesOf(es, t)) <= es.max_retries
       /\ Len(es.run_results) = Len(es.tasks)
       /\ \A t \in 1..Len(es.tasks) : es.run_results[t].task = t
       /\ LastRun(es).results = es.run_results
       /\ RunFailed(es) => ~LastRun(es).success

\* C9 witness: the first of two actions exhausted its retries, the second
\* succeeded, and the run has returned.
C9_Witness ==
    /\ ~es.stop_on_error
    /\ es.max_retries >= 1
    /\ RunOver(es)
    /\ Len(es.tasks) = 2
    /\ Len(es.run_results) = 2
    /\ ~es.run_results[1].success
    /\ es.run_results[2].success
    /\ ~LastRun(es).success

\* C10: for every max_retries, 0 included, a run that has returned has
\* success true if and only if every translated action was dispatched and
\* had an attempt that succeeded.
C10_SuccessIffAllSucceeded ==
    RunOver(es)
    => ( LastRun(es).success
         <=> \A t \in 1..Len(es.tasks) : Succeeded(es, t) )

-----------------------------------------------------------------------------
(* Properties of execute_script: single runs and cancellation              *)

C12_CancelStopsRunLoop ==
    [][ ( /\ et.pc = "script"
          /\ et.cancel_won
          /\ et.task_id \in DOMAIN tasks
          /\ tasks[et.task_id].status = "cancelled" )
        => /\ ~( es.pc # "dispatch" /\ es'.pc = "dispatch" )
           /\ es'.started = es.started ]_vars

\* C13: when execute_script is cancelled at one of its suspension points
\* (CancelledError raised in the agent call or in a sleep) while
\* execute_task awaits it for a running task, execute_task records the task
\* as cancelled, not as failed, and does not leave it running. Checked under
\* Spec, on the step in which execute_script returns.
C13_CancellationRecordedAsCancelled ==
    [][ ( /\ et.pc = "script"
          /\ es.pc \in AwaitPoints
          /\ es'.pc = "done"
          /\ es'.execution_results.status = "cancelled"
          /\ et.task_id \in DOMAIN tasks
          /\ tasks[et.task_id].status = "running" )
        => tasks'[et.task_id].status = "cancelled" ]_vars

\* C14: when execute_script is cancelled in the middle of a run, the
\* aggregate it returns holds that run as the last entry of runs, with the
\* results of the actions that had finished. Checked under SpecExec.
C14_PartialRunKept ==
    ( /\ es.pc = "done"
      /\ es.execution_results.status = "cancelled"
      /\ es.i <= Len(es.tasks) )
    => /\ Len(es.execution_results.runs) = es.started
       /\ LastRun(es).results = es.run_results

-----------------------------------------------------------------------------
(* Properties of the TaskManager                                           *)

\* C15: the ids generate_task_id returned over the life of one TaskManager
\* are pairwise distinct, whatever the calls' order and whether or not they
\* fall into the same clock second; each is the formatted pair of the
\* second and the counter of its call. Checked under SpecId.
C15_GeneratedIdsDistinct ==
    /\ Len(issued) = task_counter
    /\ \A j, k \in 1..Len(issued) : j # k => issued[j] # issued[k]
    /\ \A j \in 1..Len(issued) :
          \E t \in 0..clock :
             issued[j] = <<"t", "a", "s", "k", "_">> \o Str(t) \o <<"_">> \o Str(j)

\* C15 witness: two ids were issued within the same second.
C15_Witness ==
    /\ Len(issued) >= 2
    /\ \E j, k \in 1..Len(issued) :
          /\ j # k
          /\ SubSeq(issued[j], 1, 6) = SubSeq(issued[k], 1, 6)
          /\ Len(issued[j]) = 8
          /\ Len(issued[k]) = 8

\* C16: register_task(id) on an id that is already registered leaves the
\* existing record unchanged; in particular it never returns a completed,
\* failed or cancelled task to running. Checked under SpecReg.
C16_RegisterKeepsExistingRecord ==
    [][ ( /\ last_call'.op = "register_task"
          /\ last_call'.id \in DOMAIN tasks )
        => tasks'[last_call'.id] = tasks[last_call'.id] ]_vars

\* C17: after clear_history the registry holds exactly the tasks that were
\* running before the call, each with its record unchanged; every task that
\* was completed, failed or cancelled is gone and a later get_task_status
\* or get_all_tasks does not find it. Checked under SpecReg.
C17_ClearHistoryFrame ==
    [][ last_call'.op = "clear_history"
        => /\ DOMAIN tasks' = {id \in DOMAIN tasks : tasks[id].status = "running"}
           /\ \A id \in DOMAIN tasks' : tasks'[id] = tasks[id]
           /\ \A id \in DOMAIN tasks :
                 tasks[id].status \in Terminal
                 => /\ GetTaskStatus(tasks', id) = <<>>
                    /\ \A r \in GetAllTasks(tasks') : r.status = "running" ]_vars

\* C17 witness: clear_history removed a task and kept a running one.
C17_Witness ==
    /\ last_call.op = "clear_history"
    /\ last_call.removed # {}
    /\ \E id \in DOMAIN tasks : tasks[id].status = "running"

-----------------------------------------------------------------------------
(* Properties of the browser handles                                       *)

\* The controllers of task id that are in use: created by execute_task or
\* started by start_browser, and neither stopped nor cleaned up.
LiveControllers(id) ==
    {c \in 1..Len(controllers) :
        /\ controllers[c].task_id = id
        /\ controllers[c].state \in {"created", "started"}}

\* C18: in every reachable state, under every interleaving of
\* start_browser, stop_browser and execute_task for the same task id, at
\* most one live controller exists for that id. Checked under SpecBrowser.
C18_OneLiveHandlePerTask ==
    \A id \in TaskIds : Cardinality(LiveControllers(id)) <= 1

C20_TerminalTaskHandleTornDown ==
    \A id \in TaskIds :
       ( /\ id \in DOMAIN tasks
         /\ tasks[id].status \in Terminal
         /\ id \in DOMAIN active_browsers )
       ~> ( id \notin DOMAIN active_browsers )

-----------------------------------------------------------------------------
(* Properties of script_to_tasks                                           *)

\* The value of the script's type action as the caller wrote it, and the
\* instruction a value is translated to.
OriginalValue == original.steps[1].actions[1].value

TypeInstruction(value) ==
    <<"Type '">> \o value \o <<"' into element matching selector: ", "selector">>

\* Does text begin with prefix?
StartsWith(text, prefix) ==
    Len(text) >= Len(prefix) /\ SubSeq(text, 1, Len(prefix)) = prefix

Contains(text, piece) ==
    \E k \in 0..(Len(text) - Len(piece)) :
       SubSeq(text, k + 1, k + Len(piece)) = piece

\* The text in which every occurrence of ${name} in value, read from left
\* to right, is replaced by variables[name], and everything else is kept.
RECURSIVE ReplacedByVariables(_, _)
ReplacedByVariables(value, variables) ==
    IF value = <<>> THEN <<>>
    ELSE LET hits == {k \in 1..Len(variables) :
                         StartsWith(value, Placeholder(variables[k].name))}
         IN  IF hits = {}
             THEN <<value[1]>> \o ReplacedByVariables(Tail(value), variables)
             ELSE LET k == CHOOSE h \in hits : TRUE
                      n == Len(Placeholder(variables[k].name))
                  IN  variables[k].value
                      \o ReplacedByVariables(SubSeq(value, n + 1, Len(value)), variables)

\* C22: script_to_tasks replaces every occurrence of ${name} in an action's
\* value by variables[name] for every name of the script's variables and
\* leaves the placeholders of other names as they are: the instruction of a
\* type action carries the value so replaced. Checked under SpecSubst.
C22_PlaceholdersReplaced ==
    Len(translated) >= 1
    => translated[1][1].text
         = TypeInstruction(ReplacedByVariables(OriginalValue, original.variables))

Chars(text) == {text[k] : k \in 1..Len(text)}

\* No key holds a character of the ${...} pattern.
PlainKeys(variables) ==
    \A k \in 1..Len(variables) :
       Chars(variables[k].name) \cap {"$", "{", "}"} = {}

\* No value is empty, holds a character of the ${...} pattern or holds a
\* character of a key.
PlainValues(variables) ==
    \A k \in 1..Len(variables) :
       /\ variables[k].value # <<>>
       /\ Chars(variables[k].value) \cap {"$", "{", "}"} = {}
       /\ \A j \in 1..Len(variables) :
             Chars(variables[k].value) \cap Chars(variables[j].name) = {}

UnsupportedActions ==
    {j \in 1..Len(original.steps[1].actions) :
        original.steps[1].actions[j].action_type \notin SupportedTypes}

\* C21: if any action of the script has an unsupported type, whatever its
\* position, execute_script fails in the translation, before any action of
\* the script is dispatched to the agent: no run is started and no agent
\* call is made. Checked under SpecScript.
C21_UnsupportedActionFailsFast ==
    ( original # NoScript /\ UnsupportedActions # {} )
    => /\ es.pc \in {"idle", "raised"}
       /\ es.started = 0
       /\ es.disp = <<>>
       /\ translated # <<>> => es.pc = "raised"

\* C21 witness: the script's second action is unsupported, its first is
\* not, and execute_script raised.
C21_Witness ==
    /\ original # NoScript
    /\ UnsupportedActions = {2}
    /\ es.pc = "raised"
    /\ es.disp = <<>>

\* C24: substitution is applied at each dispatch from the original
\* placeholder text: the instruction of a type action that is being
\* dispatched carries the values the script's variables have at that
\* moment, also when they were changed between two runs of a periodic
\* execution or between two executions of the same script object. Checked
\* under SpecScript.
C24_SubstitutionAtEachDispatch ==
    ( es.pc = "dispatch" /\ ~es.tasks[es.i].check )
    => LET action == original.steps[es.tasks[es.i].origin[1]]
                             .actions[es.tasks[es.i].origin[2]]
       IN  action.action_type = "type"
           => es.tasks[es.i].text
                = TypeInstruction(ReplacedByVariables(action.value, script.variables))

\* C25: within one run the dispatches are ordered: every action of the run
\* has completed before the first validation check of the run is
\* dispatched, so no dispatch of an action follows the dispatch of a
\* check, and each dispatch has completed before the next one begins.
\* Checked under SpecScript.
C25_ActionsBeforeValidationChecks ==
    /\ \A j, k \in 1..Len(es.disp) :
          j < k => ~( es.tasks[es.disp[j].task].check
                      /\ ~es.tasks[es.disp[k].task].check )
    /\ \A j \in 1..(Len(es.disp) - 1) : es.disp[j].outcome # "pending"

-----------------------------------------------------------------------------
(* Properties of the TaskManager: frames and records                       *)

\* The task id the operation of a step is about: the id of the registry
\* call the step observes, or the id of execute_task when the step is one
\* of its steps (a registry call repeated with the same arguments leaves
\* last_call, et and es as they are).
StepTaskId ==
    IF last_call' # last_call THEN last_call'.id
    ELSE IF et' # et \/ es' # es THEN et'.task_id
    ELSE last_call.id

\* C26: every TaskManager operation on a task id X (register_task,
\* complete_task, fail_task, cancel_task, add_log, and execute_task for X
\* whatever its outcome) leaves the record and the controller binding of
\* every other task id Y unchanged. Checked under SpecFrame.
C26_OtherTasksUnchanged ==
    [][ \A Y \in TaskIds \ {StepTaskId} :
          /\ (Y \in DOMAIN tasks) <=> (Y \in DOMAIN tasks')
          /\ Y \in DOMAIN tasks => tasks'[Y] = tasks[Y]
          /\ (Y \in DOMAIN active_browsers) <=> (Y \in DOMAIN active_browsers')
          /\ Y \in DOMAIN active_browsers
             => active_browsers'[Y] = active_browsers[Y] ]_vars

\* C26 witness: execute_task failed one task and has returned while
\* another task is running and keeps its log.
C26_Witness ==
    /\ et.pc = "returned"
    /\ et.task_id \in DOMAIN tasks
    /\ tasks[et.task_id].status = "failed"
    /\ \E Y \in DOMAIN tasks \ {et.task_id} :
          /\ tasks[Y].status = "running"
          /\ tasks[Y].logs # <<>>

\* C27: an exception raised inside execute_task for a registered running
\* task, by the controller constructor, by get_agent, by the translation
\* of the script or by the execution of the script (an action whose
\* retries are exhausted), leaves the task failed with the cause as its
\* error, and execute_task goes on to its cleanup or returns. Stated on the
\* step in which the exception is raised or, for the execution of the
\* script, in which execute_script is left. Checked under SpecFrame.
C27_ExceptionsFailTheTask ==
    [][ LET id == et'.task_id
            Failed(causes) ==
                /\ tasks'[id].status = "failed"
                /\ tasks'[id].error \in causes
                /\ et'.pc \in {"cleanup", "returned"}
        IN  (id \in DOMAIN tasks /\ tasks[id].status = "running")
            => /\ (et.pc = "idle" /\ et'.pc \notin {"idle", "get_agent"})
                  => Failed({"controller_error"})
               /\ ( /\ et.pc = "get_agent" /\ et'.pc # "get_agent"
                    /\ es' = es /\ et'.exc = "none" )
                  => Failed({"agent_error", "Unsupported action type"})
               /\ ( /\ et.pc \in {"get_agent", "script"}
                    /\ es.pc # "done" /\ es'.pc = "done"
                    /\ ExhaustedIn(es') )
                  => Failed({"agent_error", "failed_after_retries"}) ]_vars

\* C28: in every state of the registry, a task has a result only if its
\* status is completed and an error only if its status is failed, and no
\* task has both a result and an error. Checked under SpecReg.
C28_ResultAndErrorFollowStatus ==
    \A id \in DOMAIN tasks :
       /\ tasks[id].result # <<>> => tasks[id].status = "completed"
       /\ tasks[id].error # "none" => tasks[id].status = "failed"
       /\ ~(tasks[id].result # <<>> /\ tasks[id].error # "none")

\* C29: in every state of the registry, a task's end_time is set exactly
\* when its status is completed, failed or cancelled: a running task has
\* none and every terminal transition sets it. Checked under SpecReg.
C29_EndTimeIffTerminal ==
    \A id \in DOMAIN tasks :
       tasks[id].end_time # "none" <=> tasks[id].status \in Terminal

\* C29 witness: a task that was cancelled has its end_time, beside a task
\* that is running and has none.
C29_Witness ==
    /\ last_call.op = "cancel_task"
    /\ last_call.ret
    /\ tasks[last_call.id].status = "cancelled"
    /\ tasks[last_call.id].end_time = "set"
    /\ \E id \in DOMAIN tasks :
          tasks[id].status = "running" /\ tasks[id].end_time = "none"

-----------------------------------------------------------------------------
(* Properties of create_task, checked under SpecApi                        *)

\* C30: for a task submitted through create_task, when the agent's run
\* inside AgentHandler.execute raised, the status create_task records is
\* failed with an error string, and completed is recorded only when the
\* agent's run succeeded. Stated on the step in which create_task records
\* the outcome and responds.
C30_AgentFailureRecordedAsFailed ==
    [][ (ct.pc # "responded" /\ ct'.pc = "responded")
        => LET task == tasks'[ct.task_id]
           IN  /\ ct.agent = "raised"
                  => task.status = "failed" /\ task.error # "none"
               /\ task.status = "completed" => ct.agent = "returned" ]_vars

-----------------------------------------------------------------------------
(* Properties of run_once's waits and of the counters, under SpecExec      *)

\* The suspension points that are asyncio.sleep(task_interval).
IntervalWaits == {"sleep_ok", "sleep_retry"}

\* The step appends an agent dispatch to the log of the run in progress.
NextDispatchInRun ==
    /\ es'.started = es.started
    /\ Len(es.disp) >= 1
    /\ Len(es'.disp) = Len(es.disp) + 1

\* C31: within a run exactly one task_interval wait lies between two
\* consecutive agent dispatches: a dispatch that returned is followed by
\* one wait, a dispatch that raised is followed by one wait unless it was
\* the last attempt under stop_on_error, which ends the run with no wait;
\* a wait is never followed by another one, and the next dispatch of the
\* run begins only when a wait ends.
C31_OneWaitBetweenDispatches ==
    [][ /\ NextDispatchInRun => es.pc \in IntervalWaits
        /\ (es.pc \in IntervalWaits /\ es' # es) => es'.pc \notin IntervalWaits
        /\ (es.pc = "dispatch" /\ es' # es)
           => LET out == es'.disp[Len(es'.disp)].outcome
              IN  /\ out = "ok" => es'.pc = "sleep_ok"
                  /\ out = "raised"
                     => IF es.attempt + 1 = es.max_retries
                           /\ es.stop_on_error
                        THEN es'.pc = "done"
                        ELSE es'.pc = "sleep_retry" ]_vars

\* C31 witness: a run under stop_on_error that dispatched at least three
\* times, the first returning, and ended on a last failed attempt.
C31_Witness ==
    /\ es.pc = "done"
    /\ es.stop_on_error
    /\ es.execution_results.status = "completed"
    /\ Len(es.disp) >= 3
    /\ es.disp[1].outcome = "ok"
    /\ es.disp[Len(es.disp)].outcome = "raised"

\* C32: at every suspension point of execute_script and when it has
\* returned, total_runs = successful_runs + failed_runs = the number of
\* entries of runs, and successful_runs is the number of entries of runs
\* whose success is true.
C32_CountersMatchRuns ==
    es.pc \in AwaitPoints \cup {"done"}
    => LET er == es.execution_results
       IN  /\ er.total_runs = er.successful_runs + er.failed_runs
           /\ er.total_runs = Len(er.runs)
           /\ er.successful_runs =
                 Cardinality({k \in 1..Len(er.runs) : er.runs[k].success})

\* C32 witness: a periodic execution has returned with one successful and
\* one failed run.
C32_Witness ==
    /\ es.pc = "done"
    /\ es.periodic
    /\ es.execution_results.successful_runs = 1
    /\ es.execution_results.failed_runs = 1
    /\ Len(es.execution_results.runs) = 2

\* The dispatches of a non-periodic execution stay within the retries:
\* at most Len(tasks) * max_retries in all, at most max_retries for each
\* task, and none for a task after one of its attempts returned.
DispatchesWithinRetries ==
    (es.pc # "idle" /\ ~es.periodic)
    => /\ Len(es.disp) <= Len(es.tasks) * es.max_retries
       /\ \A t \in 1..Len(es.tasks) :
             Cardinality({j \in 1..Len(es.disp) : es.disp[j].task = t})
                <= es.max_retries
       /\ \A j, k \in 1..Len(es.disp) :
             (j < k /\ es.disp[j].task = es.disp[k].task)
             => es.disp[j].outcome # "ok"

\* C33: with periodic=false and an agent whose every call returns or
\* raises in the end, execute_script always terminates, after at most
\* L * max_retries dispatches for L translated tasks; each task is
\* dispatched at most max_retries times and never again after an attempt
\* of it succeeded. Checked under SpecExecFair.
C33_NonPeriodicTerminatesWithinRetries ==
    /\ []DispatchesWithinRetries
    /\ (es.pc # "idle" /\ ~es.periodic) ~> (es.pc = "done")

\* C33 witness: a non-periodic execution of at least two tasks with at
\* least two retries has returned after every attempt of every task
\* raised.
C33_Witness ==
    /\ es.pc = "done"
    /\ ~es.periodic
    /\ es.execution_results.status = "completed"
    /\ Len(es.tasks) >= 2
    /\ es.max_retries >= 2
    /\ Len(es.disp) = Len(es.tasks) * es.max_retries

-----------------------------------------------------------------------------
(* The substitution passes of the two handlers, under SpecAgree            *)

\* C34: the two substitution passes agree: for every action value and
\* every variables map, the value AgentHandler.execute_script hands to
\* _execute_action is the value script_to_tasks puts into the instruction
\* of the action.
C34_SubstitutionPassesAgree ==
    (ah.pc # "idle" /\ Len(translated) >= 1)
    => translated[1][1].text = TypeInstruction(ah.executed[1])

====
